---- MODULE Spec2Model ----
(***************************************************************************)
(* paperpal: the batched concurrent fetch pipeline                         *)
(* (get_arxiv_info_for_papers_async, fetch_bibtex_batch), the BibTeX       *)
(* enricher (add_bibtex_to_papers), the three search adapters and the      *)
(* records' string forms.                                                  *)
(*                                                                         *)
(* Python strings are TLA+ strings (f-strings are \o concatenations);      *)
(* Python's None is the string None, which no input below is spelled as.   *)
(* Python's 0-based list positions are kept in i; a task is named by the   *)
(* 1-based position of its identifier in the list handed to the batched    *)
(* fetch.                                                                  *)
(***************************************************************************)
EXTENDS Naturals, Sequences, FiniteSets, TLC

VARIABLES
    fn,             \* the function the call runs
    pc,             \* where the call is
    paper_ids,      \* paper_ids / arxiv_ids: the list handed to the batched fetch
    batch_size,     \* batch_size
    i,              \* the for loop's i (0-based start of the current batch)
    batch,          \* batch / batch_arxiv_ids of the current iteration
    arg,            \* per task: the identifier its coroutine was created with
    st,             \* per task: "none", "created", "running" (awaiting client.get),
                    \* "done" (returned), "raised"
    got,            \* per task: what the network answered to its request
    ret,            \* per task: what the coroutine returned (None until it has)
    order,          \* the tasks of the current gather in the order they completed
    reordered,      \* some gather of the call saw a task complete before an earlier one
    results,        \* get_arxiv_info_for_papers_async: results (a list)
    bibtex_dict,    \* fetch_bibtex_batch: results (a dict), add_bibtex_to_papers: bibtex_dict
    papers0,        \* add_bibtex_to_papers: the records as they were handed in
    papers,         \* add_bibtex_to_papers: the records (mutated in place)
    response,       \* a search adapter: what the network answers to its one GET
    top_n,          \* a search adapter: top_n / num_papers
    fetch_bibtex_data,  \* a search adapter: fetch_bibtex_data
    outcome,        \* a search adapter: the exception it raised or the list it returned
    text            \* stringify_papers: the text returned

batchVars == <<paper_ids, batch_size, i, batch, arg, st, got, ret, order, reordered,
               results, bibtex_dict, papers0, papers>>

callVars == <<response, top_n, fetch_bibtex_data, outcome, text>>

vars == <<fn, pc, batchVars, callVars>>

(***************************************************************************)
(* Bounds of the model.                                                    *)
(***************************************************************************)
MaxIds == 3         \* longest list handed directly to a batched fetch
MaxBatch == 2       \* largest batch_size
MaxPapers == 3      \* longest record list handed to add_bibtex_to_papers

None == "None"

Truthy(x) == x # None /\ x # ""

Min(a, b) == IF a < b THEN a ELSE b

\* s[lo:hi] of a Python list, 0 <= lo
Slice(s, lo, hi) == SubSeq(s, lo + 1, Min(hi, Len(s)))

SeqsUpTo(S, n) == UNION {[1..k -> S] : k \in 0..n}

ArxivIds == {"2503.01469", "2503.01470"}

(***************************************************************************)
(* What the network answers to one GET: an exception raised by client.get  *)
(* (connection error, timeout), or a response with a status code.  The     *)
(* body of a response is decided by the URL.                               *)
(***************************************************************************)
FetchResponses ==
    { [exc |-> "", status |-> 200],
      [exc |-> "", status |-> 404],
      [exc |-> "ConnectError", status |-> 0] }

\* no answer yet
NoResponse == [exc |-> "", status |-> 0]

\* nothing raised, nothing returned
NoOutcome == [raised |-> "", value |-> <<>>]

IsSuccess(status) == status >= 200 /\ status < 300

StatusText(status) ==
    CASE status = 200 -> "200"
      [] status = 404 -> "404"
      [] status = 429 -> "429"
      [] status = 500 -> "500"
      [] OTHER -> "0"

\* response.raise_for_status(): the exception text, "" when it does not raise
RaiseForStatus(resp) ==
    IF IsSuccess(resp.status) THEN "" ELSE "HTTPStatusError " \o StatusText(resp.status)

\* src/paperpal.py get_arxiv_info_async
get_arxiv_info_async(paper_id, resp) ==
    LET url == "https://www.arxiv-txt.org/raw/abs/" \o paper_id
        e == IF resp.exc # "" THEN resp.exc ELSE RaiseForStatus(resp)
    IN  IF e = ""
        THEN "text of " \o url
        ELSE "Error fetching Arxiv info for paper " \o paper_id
                 \o ". Try again later. " \o e

\* src/paperpal/bibtex.py fetch_bibtex
fetch_bibtex(arxiv_id, resp) ==
    LET bibtex_url == "https://arxiv.org/bibtex/" \o arxiv_id
    IN  IF resp.exc # "" THEN ""
        ELSE IF resp.status = 200 THEN "text of " \o bibtex_url
        ELSE ""

\* the coroutine a batched fetch runs per identifier
Fetch(f, id, resp) ==
    IF f = "get_arxiv_info_for_papers_async"
    THEN get_arxiv_info_async(id, resp)
    ELSE fetch_bibtex(id, resp)

\* the coroutine without its try / except
NoExcept(f, id, resp) ==
    \/ resp.exc # ""
    \/ f = "get_arxiv_info_for_papers_async" /\ RaiseForStatus(resp) # ""

\* Does the coroutine raise?  Both wrap the request in try / except Exception,
\* which catches what client.get and raise_for_status raise.
FetchRaises(f, id, resp) == FALSE

(***************************************************************************)
(* dict(zip(keys, vals)) and d.update(e): a later pair replaces an earlier *)
(* pair with the same key.                                                 *)
(***************************************************************************)
Range(s) == {s[k] : k \in DOMAIN s}

Last(S) == CHOOSE m \in S : \A n \in S : n <= m

DictZip(keys, vals) ==
    LET n == Min(Len(keys), Len(vals))
    IN  [key \in {keys[k] : k \in 1..n} |->
            vals[Last({k \in 1..n : keys[k] = key})]]

DictUpdate(d, e) ==
    [key \in DOMAIN d \cup DOMAIN e |-> IF key \in DOMAIN e THEN e[key] ELSE d[key]]

EmptyDict == [key \in {} |-> ""]

(***************************************************************************)
(* The batched fetch: get_arxiv_info_for_papers_async (results is a list)  *)
(* and fetch_bibtex_batch (results is a dict).                             *)
(***************************************************************************)
BatchTooLong(ids, start, size) == Slice(ids, start, start + size + 1)

\* paper_ids[i:i + batch_size]
BatchOf(ids, start, size) == Slice(ids, start, start + size)

\* the tasks of the current batch: task k of the batch is task i + k of the call
BatchTasks == {i + k : k \in 1..Len(batch)}

GatherFirstCompleted == \E p \in BatchTasks : st[p] = "done"

\* await asyncio.gather(*tasks) resumes when every task of the batch has returned
GatherDone == \A p \in BatchTasks : st[p] = "done"

\* the results in the order the tasks completed
GatherCompletionOrder == [k \in 1..Len(order) |-> ret[order[k]]]

\* asyncio.gather returns the tasks' results in the order the tasks were passed
GatherResults == [k \in 1..Len(batch) |-> ret[i + k]]

IsBatched == fn \in {"get_arxiv_info_for_papers_async", "fetch_bibtex_batch",
                     "add_bibtex_to_papers"}

\* for i in range(0, len(paper_ids), batch_size): one more iteration.
\* The batch is sliced and one coroutine per identifier is created.
LoopEnter ==
    /\ IsBatched /\ pc = "loop"
    /\ i < Len(paper_ids)
    /\ batch' = BatchOf(paper_ids, i, batch_size)
    /\ st' = [p \in DOMAIN st |->
                IF p \in {i + k : k \in 1..Len(batch')} THEN "created" ELSE st[p]]
    /\ arg' = [p \in DOMAIN arg |->
                IF p \in {i + k : k \in 1..Len(batch')} THEN batch'[p - i] ELSE arg[p]]
    /\ order' = <<>>
    /\ pc' = "gather"
    /\ UNCHANGED <<fn, paper_ids, batch_size, i, got, ret, reordered, results,
                   bibtex_dict, papers0, papers, callVars>>

\* gather schedules the coroutines as tasks; the event loop runs them in the
\* order they were passed, each up to its await of client.get
TaskStart(p) ==
    /\ IsBatched /\ pc = "gather"
    /\ p \in BatchTasks /\ p \in DOMAIN st
    /\ st[p] = "created"
    /\ \A q \in BatchTasks : q < p => st[q] # "created"
    /\ st' = [st EXCEPT ![p] = "running"]
    /\ UNCHANGED <<fn, pc, paper_ids, batch_size, i, batch, arg, got, ret, order,
                   reordered, results, bibtex_dict, papers0, papers, callVars>>

\* the request of task p ends (in any order among the running tasks) and the
\* coroutine runs to its return
TaskComplete(p, resp) ==
    /\ IsBatched
    /\ st[p] = "running"
    /\ got' = [got EXCEPT ![p] = resp]
    /\ IF FetchRaises(fn, arg[p], resp)
       THEN st' = [st EXCEPT ![p] = "raised"] /\ UNCHANGED <<ret, order, reordered>>
       ELSE /\ st' = [st EXCEPT ![p] = "done"]
            /\ ret' = [ret EXCEPT ![p] = Fetch(fn, arg[p], resp)]
            /\ order' = Append(order, p)
            /\ reordered' = (reordered \/ \E k \in 1..Len(order) : order[k] > p)
    /\ UNCHANGED <<fn, pc, paper_ids, batch_size, i, batch, arg, results, bibtex_dict,
                   papers0, papers, callVars>>

\* batch_results = await asyncio.gather(*tasks); results.extend / results.update;
\* the first exception of a task is raised out of the call instead
GatherReturn ==
    /\ IsBatched /\ pc = "gather"
    /\ IF \E p \in BatchTasks : p \in DOMAIN st /\ st[p] = "raised"
       THEN /\ pc' = "raised"
            /\ UNCHANGED <<i, results, bibtex_dict>>
       ELSE /\ GatherDone
            /\ IF fn = "get_arxiv_info_for_papers_async"
               THEN /\ results' = results \o GatherResults
                    /\ UNCHANGED bibtex_dict
               ELSE /\ bibtex_dict' = DictUpdate(bibtex_dict, DictZip(batch, GatherResults))
                    /\ UNCHANGED results
            /\ i' = i + batch_size
            /\ pc' = "loop"
    /\ UNCHANGED <<fn, paper_ids, batch_size, batch, arg, st, got, ret, order, reordered,
                   papers0, papers, callVars>>

\* the loop is over: return results (add_bibtex_to_papers goes on to its merge)
LoopExit ==
    /\ IsBatched /\ pc = "loop"
    /\ i >= Len(paper_ids)
    /\ pc' = IF fn = "add_bibtex_to_papers" THEN "merge" ELSE "done"
    /\ UNCHANGED <<fn, paper_ids, batch_size, i, batch, arg, st, got, ret, order,
                   reordered, results, bibtex_dict, papers0, papers, callVars>>

(***************************************************************************)
(* add_bibtex_to_papers.  A record is its title, arxiv_id and bibtex       *)
(* (the fields the function reads or writes, and a title that tells the    *)
(* records apart).                                                         *)
(***************************************************************************)
PaperTitles == <<"first paper", "second paper", "third paper", "fourth paper">>

\* <<arxiv_id, bibtex>> of a record: two identifiers without a citation, one
\* of them also with a citation and with an empty citation, and no identifier
\* (None, empty)
PaperKinds ==
    { <<"2503.01469", None>>, <<"2503.01470", None>>, <<"2503.01469", "@old">>,
      <<"2503.01469", "">>, <<None, None>>, <<"", None>> }

PaperLists ==
    UNION { { [k \in 1..n |-> [title |-> PaperTitles[k], arxiv_id |-> f[k][1],
                               bibtex |-> f[k][2]]] :
              f \in [1..n -> PaperKinds] } :
            n \in 0..MaxPapers }

NeedsBibtexIgnoringId(paper) == ~Truthy(paper.bibtex)

\* if paper.arxiv_id and not paper.bibtex
NeedsBibtex(paper) == Truthy(paper.arxiv_id) /\ ~Truthy(paper.bibtex)

\* arxiv_ids = [paper.arxiv_id for paper in papers if ...]
CollectIds(ps) ==
    LET need == SelectSeq(ps, NeedsBibtex)
    IN  [k \in 1..Len(need) |-> need[k].arxiv_id]

MergeOverwriting(ps, d) ==
    [k \in DOMAIN ps |->
        IF ps[k].arxiv_id \in DOMAIN d
        THEN [ps[k] EXCEPT !.bibtex = d[ps[k].arxiv_id]]
        ELSE ps[k]]

\* the k-th record gets the citation of the k-th fetched identifier
MergeByPosition(ps, d) ==
    LET arxiv_ids == CollectIds(ps)
    IN  [k \in DOMAIN ps |->
            IF k <= Len(arxiv_ids) /\ ~Truthy(ps[k].bibtex)
            THEN [ps[k] EXCEPT !.bibtex = d[arxiv_ids[k]]]
            ELSE ps[k]]

\* for paper in papers: if paper.arxiv_id in bibtex_dict and not paper.bibtex: ...
MergeBibtex(ps, d) ==
    [k \in DOMAIN ps |->
        IF ps[k].arxiv_id \in DOMAIN d /\ ~Truthy(ps[k].bibtex)
        THEN [ps[k] EXCEPT !.bibtex = d[ps[k].arxiv_id]]
        ELSE ps[k]]

(***************************************************************************)
(* fetch_bibtex_batch and add_bibtex_to_papers as functions of what the    *)
(* fetches return: rets[p] is what the fetch of the p-th identifier        *)
(* returns.                                                                *)
(***************************************************************************)
RECURSIVE FetchBibtexBatchWith(_, _, _, _, _)
FetchBibtexBatchWith(arxiv_ids, size, rets, start, d) ==
    IF start >= Len(arxiv_ids)
    THEN d
    ELSE LET batch_arxiv_ids == BatchOf(arxiv_ids, start, size)
             batch_results == Slice(rets, start, start + Len(batch_arxiv_ids))
         IN  FetchBibtexBatchWith(arxiv_ids, size, rets, start + size,
                 DictUpdate(d, DictZip(batch_arxiv_ids, batch_results)))

AddBibtexWith(ps, size, rets) ==
    LET arxiv_ids == CollectIds(ps)
    IN  IF arxiv_ids = <<>>
        THEN ps
        ELSE MergeBibtex(ps, FetchBibtexBatchWith(arxiv_ids, size, rets, 0, EmptyDict))

\* arxiv_ids = [...]; if not arxiv_ids: return papers; else call fetch_bibtex_batch
Collect ==
    /\ fn = "add_bibtex_to_papers" /\ pc = "collect"
    /\ LET arxiv_ids == CollectIds(papers)
       IN  IF arxiv_ids = <<>>
           THEN /\ pc' = "done"
                /\ UNCHANGED <<paper_ids, arg, st, got, ret>>
           ELSE /\ pc' = "loop"
                /\ paper_ids' = arxiv_ids
                /\ arg' = [p \in 1..Len(arxiv_ids) |-> None]
                /\ st' = [p \in 1..Len(arxiv_ids) |-> "none"]
                /\ got' = [p \in 1..Len(arxiv_ids) |-> NoResponse]
                /\ ret' = [p \in 1..Len(arxiv_ids) |-> None]
    /\ UNCHANGED <<fn, batch_size, i, batch, order, reordered, results, bibtex_dict,
                   papers0, papers, callVars>>

\* the merge loop run without waiting for the gather of the current batch
MergeWithoutWaiting ==
    /\ fn = "add_bibtex_to_papers" /\ pc \in {"gather", "merge"}
    /\ papers' = MergeBibtex(papers, bibtex_dict)
    /\ pc' = "done"
    /\ UNCHANGED <<fn, paper_ids, batch_size, i, batch, arg, st, got, ret, order,
                   reordered, results, bibtex_dict, papers0, callVars>>

\* the merge loop and return papers
Merge ==
    /\ fn = "add_bibtex_to_papers" /\ pc = "merge"
    /\ papers' = MergeBibtex(papers, bibtex_dict)
    /\ pc' = "done"
    /\ UNCHANGED <<fn, paper_ids, batch_size, i, batch, arg, st, got, ret, order,
                   reordered, results, bibtex_dict, papers0, callVars>>

(***************************************************************************)
(* The records.  A constructor call ends with an exception or with a       *)
(* record; kw holds the keyword arguments given.  An Optional list that is *)
(* None is the list NoneList.                                              *)
(***************************************************************************)
NoneList == <<None>>

Returned(v) == [raised |-> "", value |-> v]

Raised(e) == [raised |-> e, value |-> <<>>]

\* kw with the defaults for the fields it does not give
WithDefaults(kw, defaults) ==
    [f \in DOMAIN kw \cup DOMAIN defaults |-> IF f \in DOMAIN kw THEN kw[f] ELSE defaults[f]]

\* every non-empty list is shortened to its first name and " et al."
AuthorShortAlwaysEtAl(authors) ==
    IF Len(authors) = 0 THEN "" ELSE authors[1] \o " et al."

\* src/paperpal/utils.py create_author_short
create_author_short(authors) ==
    IF Len(authors) = 0 THEN ""
    ELSE IF Len(authors) = 1 THEN authors[1]
    ELSE authors[1] \o " et al."

\* len(None) inside create_author_short
LenOfNone == "TypeError: object of type 'NoneType' has no len()"

ArxivPaperDefaults ==
    [type |-> "ArxivPaper", title |-> None, summary |-> None, authors |-> NoneList,
     categories |-> NoneList, arxiv_id |-> None, pdf_url |-> None,
     error_message |-> None, bibtex |-> None, arxiv_url |-> None, author_short |-> None]

\* ArxivPaper(**kw): the fields, then the validators create_url and set_author_short
ArxivPaper(kw) ==
    LET r == WithDefaults(kw, ArxivPaperDefaults)
    IN  IF r.authors = NoneList
        THEN Raised(LenOfNone)
        ELSE Returned([r EXCEPT !.arxiv_url = "https://arxiv.org/abs/" \o r.arxiv_id,
                                !.author_short = create_author_short(r.authors)])

HuggingFacePaperRequired == {"title", "summary", "authors", "arxiv_id", "upvotes"}

HuggingFacePaperDefaults ==
    [type |-> "HuggingFacePaper", arxiv_url |-> None, bibtex |-> None,
     error_message |-> None, author_short |-> None]

\* HuggingFacePaper(**kw): title, summary, authors, arxiv_id and upvotes have no
\* default; then the validators create_url and set_author_short
HuggingFacePaper(kw) ==
    IF ~(HuggingFacePaperRequired \subseteq DOMAIN kw)
    THEN Raised("ValidationError: Field required")
    ELSE LET r == WithDefaults(kw, HuggingFacePaperDefaults)
         IN  Returned([r EXCEPT !.arxiv_url = "https://arxiv.org/abs/" \o r.arxiv_id,
                                 !.author_short = create_author_short(r.authors)])

SemanticScholarPaperDefaults ==
    [type |-> "SemanticScholarPaper", title |-> None, abstract |-> None,
     authors |-> NoneList, paper_id |-> None, url |-> None, tldr |-> None,
     citation |-> None, raw_info |-> None, error_message |-> None]

\* SemanticScholarPaper(**kw): every field has a default, no validator
SemanticScholarPaper(kw) == Returned(WithDefaults(kw, SemanticScholarPaperDefaults))

(***************************************************************************)
(* The string forms.                                                       *)
(***************************************************************************)
RECURSIVE Join(_, _)
\* sep.join(parts)
Join(sep, parts) ==
    IF Len(parts) = 0 THEN ""
    ELSE IF Len(parts) = 1 THEN parts[1]
    ELSE parts[1] \o sep \o Join(sep, Tail(parts))

\* str() of an Optional list of strings
ListStr(xs) ==
    IF xs = NoneList THEN "None"
    ELSE "[" \o Join(", ", [k \in 1..Len(xs) |-> "'" \o xs[k] \o "'"]) \o "]"

\* ArxivPaper.__str__
ArxivPaperStr(r) ==
    IF Truthy(r.error_message)
    THEN "Error: " \o r.error_message
    ELSE "Title: " \o r.title \o "\nAuthors: " \o r.author_short
             \o "\nPaper ID: " \o r.arxiv_id \o "\nURL: " \o r.arxiv_url
             \o "\nCitation: " \o r.bibtex

\* HuggingFacePaper.__str__
HuggingFacePaperStr(r) ==
    "Title: " \o r.title \o "\nSummary: " \o r.summary \o "\nID: " \o r.arxiv_id
        \o "\nUpvotes: " \o ToString(r.upvotes) \o "\nURL: " \o r.arxiv_url

\* SemanticScholarPaper.__str__
SemanticScholarPaperStr(r) ==
    IF Truthy(r.error_message)
    THEN "Error: " \o r.error_message
    ELSE "Title: " \o r.title \o "\nAbstract: " \o r.abstract
             \o "\nAuthors: " \o ListStr(r.authors) \o "\nPaper ID: " \o r.paper_id
             \o "\nURL: " \o r.url \o "\nTLDR: " \o r.tldr \o "\nCitation: " \o r.citation

\* str(paper)
Str(r) ==
    CASE r.type = "ArxivPaper" -> ArxivPaperStr(r)
      [] r.type = "HuggingFacePaper" -> HuggingFacePaperStr(r)
      [] OTHER -> SemanticScholarPaperStr(r)

\* src/paperpal/mcp_server.py stringify_papers
stringify_papers(ps) ==
    "List of papers:\n---\n" \o Join("\n---\n", [k \in 1..Len(ps) |-> Str(ps[k])])
        \o "\n---\n"

(***************************************************************************)
(* The search adapters.  The body of a 2xx answer either cannot be parsed  *)
(* at all (broken) or holds items; an item may lack an expected field or   *)
(* element (missing names it).  An author entry without a name is None.    *)
(***************************************************************************)
MaxItems == 2       \* most items in a response body
MaxTopN == 2        \* largest top_n

ItemPool ==
    { [missing |-> "", id |-> "2503.01469", title |-> " Paper A ", summary |-> "About A",
       upvotes |-> 7, authors |-> <<"Ada", "Bob">>, pdf |-> TRUE, tldr |-> "A in short",
       citation |-> "@article{a}"],
      [missing |-> "", id |-> "2503.01470", title |-> "Paper B", summary |-> "About B",
       upvotes |-> 0, authors |-> <<"Cy">>, pdf |-> FALSE, tldr |-> None,
       citation |-> None],
      [missing |-> "", id |-> "2503.01471", title |-> "Paper C", summary |-> "About C",
       upvotes |-> 1, authors |-> <<>>, pdf |-> TRUE, tldr |-> None,
       citation |-> None],
      [missing |-> "title", id |-> "2503.01472", title |-> None, summary |-> "About D",
       upvotes |-> 2, authors |-> <<"Dee">>, pdf |-> TRUE, tldr |-> None,
       citation |-> None] }

SearchStatuses == {200, 404, 429, 500}

SearchResponses ==
    { [exc |-> "ConnectError", status |-> 0, broken |-> FALSE, items |-> <<>>] }
    \cup { [exc |-> "", status |-> s, broken |-> FALSE, items |-> <<>>] :
             s \in SearchStatuses \ {200} }
    \cup { [exc |-> "", status |-> 200, broken |-> TRUE, items |-> <<>>] }
    \cup { [exc |-> "", status |-> 200, broken |-> FALSE, items |-> its] :
             its \in SeqsUpTo(ItemPool, MaxItems) }

\* the exception of the request: client.get raising, or raise_for_status
RequestError(resp) == IF resp.exc # "" THEN resp.exc ELSE RaiseForStatus(resp)

\* the first item of a list that lacks a field, 0 when none does
FirstMissing(items) ==
    IF \E k \in 1..Len(items) : items[k].missing # ""
    THEN CHOOSE k \in 1..Len(items) :
             /\ items[k].missing # ""
             /\ \A j \in 1..(k - 1) : items[j].missing = ""
    ELSE 0

\* no truncation: the whole list
PrefixWhole(s, n) == s

\* s[:n] of a Python list, n >= 0
Prefix(s, n) == SubSeq(s, 1, Min(n, Len(s)))

\* src/paperpal/bibtex.py add_bibtex_to_papers: batch_size: int = 5
DefaultBatchSize == 5

\* what the BibTeX fetches of one add_bibtex_to_papers call can return
BibtexRets(ps) ==
    LET arxiv_ids == CollectIds(ps)
    IN  { [p \in 1..Len(arxiv_ids) |-> fetch_bibtex(arxiv_ids[p], f[p])] :
            f \in [1..Len(arxiv_ids) -> FetchResponses] }

\* src/paperpal/huggingface.py parse_authors
parse_authors(authors_data) == SelectSeq(authors_data, LAMBDA a : a # None)

\* src/paperpal/huggingface.py parse_paper (an item that lacks no field)
parse_paper(item) ==
    HuggingFacePaper([title |-> item.title, summary |-> item.summary,
                      arxiv_id |-> item.id, upvotes |-> item.upvotes,
                      authors |-> parse_authors(item.authors)])

\* a list holding the one record the constructor call gives, or its exception
OneRecord(made) == IF made.raised # "" THEN made ELSE Returned(<<made.value>>)

\* src/paperpal/huggingface.py semantic_search_huggingface_papers
semantic_search_huggingface_papers(resp, n, fetch, rets) ==
    LET shown == Prefix(resp.items, n)
        bad == FirstMissing(shown)
        e == IF RequestError(resp) # "" THEN RequestError(resp)
             ELSE IF resp.broken THEN "JSONDecodeError"
             ELSE IF bad # 0 THEN "KeyError: '" \o shown[bad].missing \o "'"
             ELSE ""
        parsed == [k \in 1..Len(shown) |-> parse_paper(shown[k]).value]
    IN  IF e # ""
        THEN OneRecord(HuggingFacePaper(
                 [error_message |->
                     "Error fetching papers from HuggingFace. Try again later. " \o e]))
        ELSE IF fetch /\ parsed # <<>>
        THEN Returned(AddBibtexWith(parsed, DefaultBatchSize, rets))
        ELSE Returned(parsed)

RECURSIVE Strip(_)
\* str.strip()
Strip(s) ==
    IF Len(s) = 0 THEN s
    ELSE IF SubSeq(s, 1, 1) = " " THEN Strip(SubSeq(s, 2, Len(s)))
    ELSE IF SubSeq(s, Len(s), Len(s)) = " " THEN Strip(SubSeq(s, 1, Len(s) - 1))
    ELSE s

\* id_url.split("/")[-1]
LastSegment(s) ==
    LET slashes == {k \in 1..Len(s) : SubSeq(s, k, k) = "/"}
    IN  IF slashes = {} THEN s ELSE SubSeq(s, Last(slashes) + 1, Len(s))

\* src/paperpal/arxiv.py search_arxiv, one entry (that lacks no element)
ArxivEntry(item) ==
    ArxivPaper([title |-> Strip(item.title), summary |-> Strip(item.summary),
                authors |-> item.authors, categories |-> <<"cs.CL">>,
                arxiv_id |-> LastSegment("http://arxiv.org/abs/" \o item.id),
                pdf_url |-> IF item.pdf THEN "http://arxiv.org/pdf/" \o item.id ELSE None,
                bibtex |-> None])

\* src/paperpal/arxiv.py search_arxiv
search_arxiv(resp, fetch, rets) ==
    LET bad == FirstMissing(resp.items)
        parsed == [k \in 1..Len(resp.items) |-> ArxivEntry(resp.items[k]).value]
    IN  IF RequestError(resp) # ""
        THEN OneRecord(ArxivPaper(
                 [error_message |-> "HTTP error occurred: " \o RequestError(resp)]))
        ELSE IF resp.broken
        THEN OneRecord(ArxivPaper([error_message |-> "XML parsing error: ParseError"]))
        ELSE IF bad # 0
        THEN OneRecord(ArxivPaper(
                 [error_message |-> "An unexpected error occurred: "
                     \o "'NoneType' object has no attribute 'text'"]))
        ELSE IF fetch /\ parsed # <<>>
        THEN Returned(AddBibtexWith(parsed, DefaultBatchSize, rets))
        ELSE Returned(parsed)

\* src/paperpal/s2.py parse_semantic_scholar_paper: every field is read with
\* .get, a field the item lacks is None
parse_semantic_scholar_paper(item) ==
    SemanticScholarPaper(
        [title |-> item.title, abstract |-> item.summary,
         authors |-> [k \in 1..Len(item.authors) |->
                         IF item.authors[k] = None THEN "" ELSE item.authors[k]],
         paper_id |-> item.id,
         url |-> "https://www.semanticscholar.org/paper/" \o item.id,
         tldr |-> IF Truthy(item.tldr) THEN item.tldr ELSE None,
         citation |-> IF Truthy(item.citation) THEN item.citation ELSE None,
         raw_info |-> item.id, error_message |-> None])

S2NoRateLimitCheck(resp) == FALSE

\* if response.status_code == 429
S2RateLimited(resp) == resp.status = 429

\* src/paperpal/s2.py search_semantic_scholar
search_semantic_scholar(resp, num_papers) ==
    IF resp.exc # ""
    THEN OneRecord(SemanticScholarPaper(
             [error_message |-> "Failed to fetch papers from Semantic Scholar: " \o resp.exc]))
    ELSE IF S2RateLimited(resp)
    THEN OneRecord(SemanticScholarPaper(
             [error_message |-> "Rate limit exceeded. Try again after later."]))
    ELSE IF RaiseForStatus(resp) # ""
    THEN OneRecord(SemanticScholarPaper(
             [error_message |-> "Failed to fetch papers from Semantic Scholar: "
                 \o RaiseForStatus(resp)]))
    ELSE IF resp.broken
    THEN OneRecord(SemanticScholarPaper(
             [error_message |-> "Unexpected error while searching Semantic Scholar: "
                 \o "JSONDecodeError"]))
    ELSE Returned([k \in 1..Len(resp.items) |->
                      parse_semantic_scholar_paper(resp.items[k]).value])

\* the adapter returns or raises
Finish(made) ==
    /\ outcome' = made
    /\ pc' = IF made.raised # "" THEN "raised" ELSE "returned"
    /\ UNCHANGED <<fn, batchVars, response, top_n, fetch_bibtex_data, text>>

\* a call of search_arxiv, its BibTeX fetches included
SearchArxiv ==
    /\ fn = "search_arxiv" /\ pc = "call"
    /\ \E rets \in BibtexRets([k \in 1..Len(response.items) |->
                                  [arxiv_id |-> response.items[k].id, bibtex |-> None]]) :
          Finish(search_arxiv(response, fetch_bibtex_data, rets))

\* a call of semantic_search_huggingface_papers, its BibTeX fetches included
SearchHuggingFace ==
    /\ fn = "semantic_search_huggingface_papers" /\ pc = "call"
    /\ \E rets \in BibtexRets([k \in 1..Len(Prefix(response.items, top_n)) |->
                                  [arxiv_id |-> response.items[k].id, bibtex |-> None]]) :
          Finish(semantic_search_huggingface_papers(response, top_n, fetch_bibtex_data,
                                                    rets))

\* a call of search_semantic_scholar
SearchSemanticScholar ==
    /\ fn = "search_semantic_scholar" /\ pc = "call"
    /\ Finish(search_semantic_scholar(response, top_n))

\* the tool returns stringify_papers(papers)
Stringify ==
    /\ pc = "returned"
    /\ text' = stringify_papers(outcome.value)
    /\ pc' = "done"
    /\ UNCHANGED <<fn, batchVars, response, top_n, fetch_bibtex_data, outcome>>

(***************************************************************************)
(* The calls.                                                              *)
(***************************************************************************)
InitFetch ==
    /\ fn \in {"get_arxiv_info_for_papers_async", "fetch_bibtex_batch"}
    /\ paper_ids \in SeqsUpTo(ArxivIds, MaxIds)
    /\ batch_size \in 1..MaxBatch
    /\ pc = "loop"
    /\ arg = [p \in 1..Len(paper_ids) |-> None]
    /\ st = [p \in 1..Len(paper_ids) |-> "none"]
    /\ got = [p \in 1..Len(paper_ids) |-> NoResponse]
    /\ ret = [p \in 1..Len(paper_ids) |-> None]
    /\ papers0 = <<>> /\ papers = <<>>

InitEnrich ==
    /\ fn = "add_bibtex_to_papers"
    /\ papers0 \in PaperLists
    /\ papers = papers0
    /\ batch_size \in 1..MaxBatch
    /\ pc = "collect"
    /\ paper_ids = <<>> /\ arg = <<>> /\ st = <<>> /\ got = <<>> /\ ret = <<>>

\* a batched fetch or an enrichment is called
InitBatched ==
    /\ InitFetch \/ InitEnrich
    /\ response = NoResponse /\ top_n = 0 /\ fetch_bibtex_data = FALSE
    /\ outcome = NoOutcome

\* a search adapter is called by its tool
InitSearch ==
    /\ fn \in {"search_arxiv", "semantic_search_huggingface_papers",
               "search_semantic_scholar"}
    /\ pc = "call"
    /\ response \in SearchResponses
    /\ top_n \in 0..MaxTopN
    /\ fetch_bibtex_data \in BOOLEAN
    /\ outcome = NoOutcome
    /\ paper_ids = <<>> /\ arg = <<>> /\ st = <<>> /\ got = <<>> /\ ret = <<>>
    /\ batch_size = DefaultBatchSize
    /\ papers0 = <<>> /\ papers = <<>>

\* records as their constructors make them, with and without an error_message
RecordPool ==
    { made.value :
        made \in
            { ArxivPaper([title |-> "Paper A", authors |-> <<"Ada", "Bob">>,
                         arxiv_id |-> "2503.01469", error_message |-> e, bibtex |-> b]) :
                e \in {None, "boom"}, b \in {None, "@old"} }
            \cup
            { HuggingFacePaper([title |-> "Paper B", summary |-> "About B",
                               authors |-> <<"Cy">>, arxiv_id |-> "2503.01470",
                               upvotes |-> 7, error_message |-> e, bibtex |-> b]) :
                e \in {None, "boom"}, b \in {None, "@old"} }
            \cup
            { SemanticScholarPaper([title |-> "Paper C", authors |-> <<"Dee">>,
                                   paper_id |-> "c0ffee", error_message |-> e]) :
                e \in {None, "boom"} } }

\* stringify_papers is handed a list of records
InitStringify ==
    /\ fn = "stringify_papers"
    /\ pc = "returned"
    /\ \E ps \in SeqsUpTo(RecordPool, MaxItems) : outcome = Returned(ps)
    /\ response = NoResponse /\ top_n = 0 /\ fetch_bibtex_data = FALSE
    /\ paper_ids = <<>> /\ arg = <<>> /\ st = <<>> /\ got = <<>> /\ ret = <<>>
    /\ batch_size = DefaultBatchSize
    /\ papers0 = <<>> /\ papers = <<>>

Init ==
    /\ InitBatched \/ InitSearch \/ InitStringify
    /\ i = 0 /\ batch = <<>> /\ order = <<>> /\ reordered = FALSE
    /\ results = <<>> /\ bibtex_dict = EmptyDict
    /\ text = ""

Next ==
    \/ LoopEnter
    \/ \E p \in DOMAIN st : TaskStart(p)
    \/ \E p \in DOMAIN st : \E resp \in FetchResponses : TaskComplete(p, resp)
    \/ GatherReturn
    \/ LoopExit
    \/ Collect
    \/ Merge
    \/ SearchArxiv
    \/ SearchHuggingFace
    \/ SearchSemanticScholar
    \/ Stringify

Spec == Init /\ [][Next]_vars

(***************************************************************************)
(* Properties of the batched fetch.                                        *)
(***************************************************************************)
Done == pc = "done"

\* the tasks that have been started and have not completed
InFlight == {p \in DOMAIN st : st[p] = "running"}

\* the batch a task belongs to, by the position of its identifier in the input
BatchNo(p) == (p - 1) \div batch_size

\* C1: get_arxiv_info_for_papers_async returns exactly one result per input id,
\* and the result at position p is what the fetch for the id at input position p
\* returned, across batch boundaries and whatever order the fetches completed in.
C1_OrderPreserved ==
    (fn = "get_arxiv_info_for_papers_async" /\ Done) =>
        /\ Len(results) = Len(paper_ids)
        /\ \A p \in 1..Len(paper_ids) :
              /\ st[p] = "done"
              /\ arg[p] = paper_ids[p]
              /\ results[p] = ret[p]
              /\ results[p] = get_arxiv_info_async(paper_ids[p], got[p])

\* a call over several batches has returned, and inside a batch a later fetch
\* completed before an earlier one
C1_Witness ==
    /\ fn = "get_arxiv_info_for_papers_async" /\ Done
    /\ Len(paper_ids) > batch_size
    /\ reordered
    /\ \E p, q \in 1..Len(paper_ids) : results[p] # results[q]

\* C2: at no time are more than batch_size fetches started and not yet completed.
C2_AtMostBatchSizeInFlight ==
    IsBatched => Cardinality(InFlight) <= batch_size

\* a full batch of fetches is in flight at once while further identifiers of
\* the same call are still waiting for their batch
C2_Witness ==
    /\ fn = "fetch_bibtex_batch"
    /\ batch_size >= 2 /\ Len(paper_ids) > i + batch_size
    /\ Cardinality(InFlight) = batch_size

\* C3: no fetch of a later batch exists, let alone has started, while a fetch
\* of an earlier batch has not completed.
C3_BatchesSequential ==
    IsBatched =>
        \A p, q \in DOMAIN st :
            (BatchNo(p) < BatchNo(q) /\ st[q] # "none") => st[p] = "done"

\* a fetch of the second batch is in flight after the two of the first completed
C3_Witness ==
    /\ IsBatched /\ batch_size = 2
    /\ Len(paper_ids) >= 3
    /\ st[1] = "done" /\ st[2] = "done" /\ st[3] = "running"

\* a transport or HTTP failure of a request
Failed(resp) == resp.exc # "" \/ ~IsSuccess(resp.status)

StartsWith(s, prefix) ==
    Len(s) >= Len(prefix) /\ SubSeq(s, 1, Len(prefix)) = prefix

\* the per-item failure marker of the function's fetch
IsFailureMarker(f, returned) ==
    IF f = "get_arxiv_info_for_papers_async"
    THEN StartsWith(returned, "Error fetching Arxiv info for paper ")
    ELSE returned = ""

\* No fetch aborts the call, every fetch is run, and a failed fetch yields
\* the failure marker.
C4_NoAbort ==
    /\ pc # "raised"
    /\ \A p \in DOMAIN st : st[p] # "raised"
    /\ (Done \/ pc = "merge") =>
          \A p \in 1..Len(paper_ids) :
              /\ st[p] = "done"
              /\ Failed(got[p]) <=> IsFailureMarker(fn, ret[p])

\* the statement of C4 as made: every operation's result is returned at its
\* own position (list) or under its own identifier (dict)
C4_EveryResultReturned ==
    /\ IsBatched => C4_NoAbort
    /\ (fn = "get_arxiv_info_for_papers_async" /\ Done) =>
          \A p \in 1..Len(paper_ids) : results[p] = ret[p]
    /\ (fn \in {"fetch_bibtex_batch", "add_bibtex_to_papers"} /\ pc \in {"done", "merge"}) =>
          \A p \in 1..Len(paper_ids) :
              paper_ids[p] \in DOMAIN bibtex_dict /\ bibtex_dict[paper_ids[p]] = ret[p]

\* C4 (amended): a failing fetch never aborts its batch or a later one; it
\* yields its failure marker, every other fetch is run, and its result is
\* returned at its own position (list) or, in the dict, under its identifier
\* unless a later fetch of the same call has the same identifier, whose result
\* is then the one the dict holds.
C4_FailureIsPerItem ==
    /\ IsBatched => C4_NoAbort
    /\ (fn = "get_arxiv_info_for_papers_async" /\ Done) =>
          \A p \in 1..Len(paper_ids) : results[p] = ret[p]
    /\ (fn \in {"fetch_bibtex_batch", "add_bibtex_to_papers"} /\ pc \in {"done", "merge"}) =>
          \A p \in 1..Len(paper_ids) :
              /\ paper_ids[p] \in DOMAIN bibtex_dict
              /\ bibtex_dict[paper_ids[p]] =
                    ret[Last({q \in 1..Len(paper_ids) : paper_ids[q] = paper_ids[p]})]

\* a fetch of the first batch failed; fetches of the same batch and of a later
\* batch succeeded and their results are in the dict
C4_Witness ==
    /\ fn = "fetch_bibtex_batch" /\ Done
    /\ batch_size = 2 /\ Len(paper_ids) >= 3
    /\ Failed(got[1]) /\ ~Failed(got[2]) /\ ~Failed(got[3])
    /\ paper_ids[1] # paper_ids[2] /\ paper_ids[3] = paper_ids[2]
    /\ bibtex_dict[paper_ids[1]] = "" /\ bibtex_dict[paper_ids[2]] # ""

(***************************************************************************)
(* Properties of add_bibtex_to_papers.  A record has a citation when its   *)
(* bibtex is neither None nor empty, which is what the code tests.         *)
(***************************************************************************)
Enriching == fn = "add_bibtex_to_papers"

\* C6: add_bibtex_to_papers keeps the records, their order and their count, and
\* changes at most the bibtex of a record that has a non-empty arxiv_id and had
\* no citation; a record with a citation keeps it and a record with no
\* identifier is unchanged.
C6_OnlyMissingCitationsChange ==
    Enriching =>
        /\ Len(papers) = Len(papers0)
        /\ \A k \in 1..Len(papers0) :
              /\ papers[k].title = papers0[k].title
              /\ papers[k].arxiv_id = papers0[k].arxiv_id
              /\ Truthy(papers0[k].bibtex) => papers[k] = papers0[k]
              /\ ~Truthy(papers0[k].arxiv_id) => papers[k] = papers0[k]

\* the call returned: one record was given a fetched citation, another with
\* the same identifier kept the citation it had, a third has no identifier
C6_Witness ==
    /\ Enriching /\ Done
    /\ \E a, b, c \in 1..Len(papers0) :
          /\ papers0[a].arxiv_id = papers0[b].arxiv_id
          /\ papers0[a].bibtex = None /\ Truthy(papers[a].bibtex)
          /\ papers0[b].bibtex = "@old" /\ papers[b].bibtex = "@old"
          /\ papers0[c].arxiv_id = "" /\ papers[c] = papers0[c]

\* the tasks whose request has been started
Started == {p \in DOMAIN st : st[p] \in {"running", "done", "raised"}}

\* C7: a BibTeX fetch is started only for a non-empty identifier that a record
\* without a citation carries; when no record qualifies there is no fetch.
C7_FetchOnlyWhatIsNeeded ==
    Enriching =>
        /\ \A p \in Started :
              /\ Truthy(arg[p])
              /\ \E k \in 1..Len(papers0) :
                    /\ papers0[k].arxiv_id = arg[p]
                    /\ ~Truthy(papers0[k].bibtex)
        /\ (~ \E k \in 1..Len(papers0) : NeedsBibtex(papers0[k])) =>
              (DOMAIN st = {} /\ pc \in {"collect", "done"})

\* a fetch is in flight for the one record that needs it, beside a record with
\* no identifier and a record that has its citation
C7_Witness ==
    /\ Enriching /\ Len(papers0) = 3
    /\ Cardinality(Started) = 1 /\ Len(paper_ids) = 1
    /\ \E a, b \in 1..Len(papers0) :
          /\ papers0[a].arxiv_id = None /\ papers0[a].bibtex = None
          /\ Truthy(papers0[b].arxiv_id) /\ papers0[b].bibtex = "@old"

\* every fetch for the same identifier returned the same citation
FixedPerId ==
    \A p, q \in DOMAIN ret : paper_ids[p] = paper_ids[q] => ret[p] = ret[q]

\* the citation this call fetched for an identifier
FetchedFor(id) ==
    IF \E p \in DOMAIN ret : paper_ids[p] = id
    THEN ret[CHOOSE p \in DOMAIN ret : paper_ids[p] = id]
    ELSE ""

\* what the fetches return, one per identifier collected from ps
FixedRets(ps) ==
    LET arxiv_ids == CollectIds(ps)
    IN  [p \in 1..Len(arxiv_ids) |-> FetchedFor(arxiv_ids[p])]

\* C8: with a fixed citation per identifier, every enriched record ends with
\* the citation fetched for its own identifier, and add_bibtex_to_papers on any
\* permutation of the records gives every record the same citation.
C8_MergeByIdentifier ==
    (Enriching /\ Done /\ FixedPerId) =>
        /\ papers = AddBibtexWith(papers0, batch_size, ret)
        /\ \A k \in 1..Len(papers0) :
              NeedsBibtex(papers0[k]) => papers[k].bibtex = FetchedFor(papers0[k].arxiv_id)
        /\ \A perm \in Permutations(DOMAIN papers0) :
              LET shuffled == [k \in DOMAIN papers0 |-> papers0[perm[k]]]
                  out == AddBibtexWith(shuffled, batch_size, FixedRets(shuffled))
              IN  \A k \in DOMAIN papers0 : out[k] = papers[perm[k]]

\* a record that needs no fetch stands before two records that were enriched
\* with different citations, so positions in the records and in the fetched
\* identifiers differ
C8_Witness ==
    /\ Enriching /\ Done /\ FixedPerId
    /\ Len(papers0) = 3
    /\ ~NeedsBibtex(papers0[1]) /\ NeedsBibtex(papers0[2]) /\ NeedsBibtex(papers0[3])
    /\ papers0[2].arxiv_id # papers0[3].arxiv_id
    /\ Truthy(papers[2].bibtex) /\ Truthy(papers[3].bibtex)
    /\ papers[2].bibtex # papers[3].bibtex

(***************************************************************************)
(* Properties of the search adapters and of the string forms.              *)
(***************************************************************************)
Searching == fn \in {"search_arxiv", "semantic_search_huggingface_papers",
                     "search_semantic_scholar"}

\* the adapter's call is over
SearchOver == Searching /\ pc \in {"returned", "raised", "done"}

Contains(s, sub) ==
    \E k \in 1..(Len(s) + 1 - Len(sub)) : SubSeq(s, k, k + Len(sub) - 1) = sub

\* the list the adapter returned holds an error-bearing record
HoldsErrorRecord ==
    /\ outcome.raised = ""
    /\ \E k \in 1..Len(outcome.value) : Truthy(outcome.value[k].error_message)

\* C5: no adapter lets an exception out, and a transport failure, a non-2xx
\* status or a body that cannot be parsed ends with a list that holds an
\* error-bearing record.
C5_ErrorsAreRecords ==
    SearchOver =>
        /\ pc # "raised" /\ outcome.raised = ""
        /\ (RequestError(response) # "" \/ response.broken) => HoldsErrorRecord

RateLimitText == "Rate limit exceeded. Try again after later."

ContentLabels ==
    {"Title: ", "Summary: ", "Abstract: ", "Authors: ", "ID: ", "Upvotes: ", "URL: ",
     "TLDR: ", "Citation: "}

\* C10: the string form of a record of any of the three types whose
\* error_message is set is its error text alone, with no labelled content
\* field, and so is the block stringify_papers renders for it.
C10_ErrorRendersAlone ==
    (pc = "done" /\ (fn = "stringify_papers" \/ Searching)) =>
        /\ \A k \in 1..Len(outcome.value) :
              LET r == outcome.value[k]
              IN  Truthy(r.error_message) =>
                      /\ Str(r) = "Error: " \o r.error_message
                      /\ \A label \in ContentLabels : ~Contains(Str(r), label)
        /\ (Len(outcome.value) = 1 /\ Truthy(outcome.value[1].error_message)) =>
              text = "List of papers:\n---\nError: " \o outcome.value[1].error_message
                         \o "\n---\n"

(***************************************************************************)
(* Properties of the parsing of a response's items.                        *)
(***************************************************************************)
\* the items of the response the adapter parses
Shown ==
    IF fn = "semantic_search_huggingface_papers"
    THEN Prefix(response.items, top_n)
    ELSE response.items

\* the adapter's parsing of the item raises: parse_paper subscripts the field
\* and search_arxiv takes .text of the element; parse_semantic_scholar_paper
\* reads every field with .get
Unparseable(f, item) == f # "search_semantic_scholar" /\ item.missing # ""

\* C11: when a 2xx response holds several items and exactly one of them cannot
\* be parsed, the adapter returns one record per item: the parsed record of
\* every other item, and an error-bearing record in place of the failing one.
C11_OneFailureIsIsolated ==
    (/\ SearchOver /\ RequestError(response) = "" /\ ~response.broken
     /\ Len(Shown) >= 2
     /\ Cardinality({k \in 1..Len(Shown) : Unparseable(fn, Shown[k])}) = 1) =>
        /\ pc # "raised" /\ outcome.raised = ""
        /\ Len(outcome.value) = Len(Shown)
        /\ \A k \in 1..Len(Shown) :
              IF Unparseable(fn, Shown[k])
              THEN Truthy(outcome.value[k].error_message)
              ELSE /\ ~Truthy(outcome.value[k].error_message)
                   /\ outcome.value[k].arxiv_id = Shown[k].id

(***************************************************************************)
(* Properties of author_short.                                             *)
(***************************************************************************)
MaxAuthors == 3     \* longest author list create_author_short is applied to

AuthorNames == {"Ada", "Bob", "Cy"}

\* short is the short form the three cases give for authors
AuthorShortCases(authors, short) ==
    /\ Len(authors) = 0 => short = ""
    /\ Len(authors) = 1 => short = authors[1]
    /\ Len(authors) >= 2 => short = authors[1] \o " et al."

\* create_author_short on every author list up to MaxAuthors names
AuthorShortOfEveryList ==
    \A authors \in SeqsUpTo(AuthorNames, MaxAuthors) :
        AuthorShortCases(authors, create_author_short(authors))

\* the record the adapter constructed for the k-th item it parsed
Constructed(k) ==
    IF fn = "search_arxiv" THEN ArxivEntry(Shown[k]).value
    ELSE parse_paper(Shown[k]).value

\* C12: create_author_short gives "" for no author, the sole name for one
\* author and the first name followed by " et al." for two or more; a record's
\* author_short is that value for its authors, set when the record is
\* constructed and the same after the record has been enriched and rendered.
C12_AuthorShort ==
    /\ AuthorShortOfEveryList
    /\ (pc \in {"returned", "done"} /\ fn \in {"search_arxiv",
            "semantic_search_huggingface_papers", "stringify_papers"}) =>
          \A k \in 1..Len(outcome.value) :
              LET r == outcome.value[k]
              IN  "author_short" \in DOMAIN r =>
                      AuthorShortCases(r.authors, r.author_short)
    /\ (pc \in {"returned", "done"} /\ fn \in {"search_arxiv",
            "semantic_search_huggingface_papers"}) =>
          /\ Len(outcome.value) = Len(Shown)
          /\ \A k \in 1..Len(Shown) :
                /\ outcome.value[k].authors = Constructed(k).authors
                /\ outcome.value[k].author_short = Constructed(k).author_short

\* a search returned a record of two authors and a record of one author, both
\* given a citation after their construction, and the tool rendered them
C12_Witness ==
    /\ fn = "search_arxiv" /\ pc = "done" /\ fetch_bibtex_data
    /\ Len(outcome.value) = 2
    /\ outcome.value[1].authors = <<"Ada", "Bob">>
    /\ outcome.value[1].author_short = "Ada et al."
    /\ Truthy(outcome.value[1].bibtex)
    /\ outcome.value[2].authors = <<"Cy">>
    /\ outcome.value[2].author_short = "Cy"
    /\ Truthy(outcome.value[2].bibtex)
    /\ Contains(text, "Authors: Ada et al.")

(***************************************************************************)
(* Properties of the HuggingFace search and of its rendering.              *)
(***************************************************************************)
\* where sub occurs in s
Positions(s, sub) ==
    {k \in 1..(Len(s) + 1 - Len(sub)) : SubSeq(s, k, k + Len(sub) - 1) = sub}

\* the n-th smallest member of a set of numbers
NthOf(S, n) == CHOOSE m \in S : Cardinality({x \in S : x <= m}) = n

\* what follows the n-th occurrence of label in s
AfterNth(s, label, n) ==
    SubSeq(s, NthOf(Positions(s, label), n) + Len(label), Len(s))

\* the number of entries of the response that the requested count admits
Admitted == Min(top_n, Len(response.items))

\* the response is a 2xx whose body parses and whose admitted entries each
\* hold every field parse_paper reads
HuggingFaceSuccess ==
    /\ fn = "semantic_search_huggingface_papers"
    /\ RequestError(response) = "" /\ ~response.broken
    /\ \A k \in 1..Admitted : response.items[k].missing = ""

\* C13: for a successful HuggingFace response of M entries and top_n >= 0,
\* semantic_search_huggingface_papers returns exactly min(top_n, M) records,
\* the k-th built from the k-th entry of the response, and the tool renders
\* exactly that many paper blocks, the k-th block being that of the k-th entry.
C13_TopNTruncates ==
    (HuggingFaceSuccess /\ SearchOver) =>
        /\ pc # "raised" /\ outcome.raised = ""
        /\ Len(outcome.value) = Admitted
        /\ \A k \in 1..Admitted :
              /\ outcome.value[k].arxiv_id = response.items[k].id
              /\ outcome.value[k].title = response.items[k].title
              /\ outcome.value[k].summary = response.items[k].summary
              /\ outcome.value[k].upvotes = response.items[k].upvotes
        /\ pc = "done" =>
              /\ Cardinality(Positions(text, "Title: ")) = Admitted
              /\ Cardinality(Positions(text, "\nID: ")) = Admitted
              /\ \A k \in 1..Admitted :
                    /\ StartsWith(AfterNth(text, "Title: ", k),
                                  response.items[k].title \o "\n")
                    /\ StartsWith(AfterNth(text, "\nID: ", k),
                                  response.items[k].id \o "\n")

\* the response holds two different entries and top_n is 1: one record and one
\* rendered block, from the first entry
C13_Witness ==
    /\ HuggingFaceSuccess /\ pc = "done"
    /\ Len(response.items) = 2 /\ top_n = 1
    /\ response.items[1].id # response.items[2].id
    /\ Len(outcome.value) = 1
    /\ Contains(text, response.items[1].id)
    /\ ~Contains(text, response.items[2].id)

\* C14: after a successful HuggingFace search with BibTeX enrichment, the
\* rendered block of every returned paper holds its title, summary, ID and
\* upvotes, the names of its authors and the citation fetched for it.
C14_RendersAuthorsAndBibtex ==
    (HuggingFaceSuccess /\ fetch_bibtex_data /\ pc = "done") =>
        \A k \in 1..Len(outcome.value) :
            LET r == outcome.value[k]
                block == Str(r)
            IN  /\ Contains(text, block)
                /\ Contains(block, r.title) /\ Contains(block, r.summary)
                /\ Contains(block, r.arxiv_id)
                /\ Contains(block, ToString(r.upvotes))
                /\ \A a \in 1..Len(r.authors) : Contains(block, r.authors[a])
                /\ Truthy(r.bibtex) => Contains(block, r.bibtex)

(***************************************************************************)
(* The merge point of add_bibtex_to_papers.                                *)
(***************************************************************************)
\* the merge has written a citation into a record
MergeWrote == \E k \in 1..Len(papers) : papers[k].bibtex # papers0[k].bibtex

\* C15: in add_bibtex_to_papers the merge is reached, and a record's citation
\* has been written, only when every BibTeX fetch of the call has completed:
\* one fetch per collected identifier, none in flight and none unstarted.
C15_MergeAfterAllFetches ==
    (Enriching /\ (pc = "merge" \/ MergeWrote)) =>
        /\ InFlight = {}
        /\ Len(st) = Len(CollectIds(papers0))
        /\ \A p \in DOMAIN st : st[p] = "done"

\* citations were attached after two batches of fetches, the fetches of the
\* first batch having completed in the reverse of the order they were started
C15_Witness ==
    /\ Enriching /\ Done /\ MergeWrote
    /\ batch_size = 2 /\ Len(paper_ids) = 3
    /\ reordered
    /\ \A p \in DOMAIN st : st[p] = "done"

====
